---------------------------- MODULE Spec2Model ----------------------------
(***************************************************************************)
(* ABAP Analyzer MCP server (.kiro/mcp/abap-analyzer.py).                  *)
(*                                                                         *)
(* A Python str is a sequence of TLA+ strings: input text is given one     *)
(* character per element, a literal the program writes into its output is  *)
(* one element.  Every regular expression of the analyzer is modelled by a *)
(* matcher that decides, for a start position, whether Python's re matches *)
(* there, where the match ends and what its groups hold; re.finditer is    *)
(* the left-to-right, non-overlapping scan FindIter.  Python values that   *)
(* travel through json are records with one field named after their type.  *)
(* The stdio request loop is a process with a program counter.             *)
(***************************************************************************)
EXTENDS Integers, Sequences, FiniteSets

VARIABLES
    stdin,      \* input lines not yet read
    consumed,   \* input lines already returned by input()
    stdout,     \* response lines printed so far
    pc,         \* position of the process
    line,       \* module-level variable `line`
    request,    \* module-level variable `request`
    response,   \* module-level variable `response`
    exc,        \* the exception being handled, Raise(str(e))
    tables,     \* class attributes ABAPAnalyzer.SAP_TABLES and BAPI_PATTERNS
    hashSeed,   \* the process's string-hash seed (orders set iteration)
    code,       \* text argument of a direct analyzer call
    modern,     \* second text argument (validate_business_logic)
    arg,        \* option argument of a direct call (extraction_type)
    result      \* value returned by a direct analyzer call

vars == <<stdin, consumed, stdout, pc, line, request, response, exc,
          tables, hashSeed, code, modern, arg, result>>

\* a name that is not bound yet
Unbound == [unbound |-> TRUE]

-----------------------------------------------------------------------------
(* Python values *)

PyStr(s) == [str |-> s]
PyLit(lit) == [str |-> <<lit>>]
PyDict(d) == [dict |-> d]
PyList(l) == [list |-> l]
PyInt(n) == [int |-> n]
PyBool(b) == [bool |-> b]
PyNone == [none |-> TRUE]

IsStr(v) == DOMAIN v = {"str"}
IsDict(v) == DOMAIN v = {"dict"}

\* type(v).__name__
TypeName(v) ==
    CASE DOMAIN v = {"str"} -> "str"
      [] DOMAIN v = {"dict"} -> "dict"
      [] DOMAIN v = {"list"} -> "list"
      [] DOMAIN v = {"int"} -> "int"
      [] DOMAIN v = {"bool"} -> "bool"
      [] DOMAIN v = {"none"} -> "NoneType"

\* bool(v)
Truthy(v) ==
    CASE DOMAIN v = {"str"} -> v.str # <<>>
      [] DOMAIN v = {"dict"} -> DOMAIN v.dict # {}
      [] DOMAIN v = {"list"} -> v.list # <<>>
      [] DOMAIN v = {"int"} -> v.int # 0
      [] DOMAIN v = {"bool"} -> v.bool
      [] DOMAIN v = {"none"} -> FALSE

\* f'{v}' for the values a method name is drawn from
Format(v) ==
    CASE DOMAIN v = {"str"} -> v.str
      [] DOMAIN v = {"none"} -> <<"None">>
      [] DOMAIN v = {"bool"} -> IF v.bool THEN <<"True">> ELSE <<"False">>

\* d.get(key, default) on a dict
Get(d, key, default) == IF key \in DOMAIN d.dict THEN d.dict[key] ELSE default

-----------------------------------------------------------------------------
(* Characters and strings *)

LowerLetters == <<"a","b","c","d","e","f","g","h","i","j","k","l","m",
                  "n","o","p","q","r","s","t","u","v","w","x","y","z">>
UpperLetters == <<"A","B","C","D","E","F","G","H","I","J","K","L","M",
                  "N","O","P","Q","R","S","T","U","V","W","X","Y","Z">>
Digits == <<"0","1","2","3","4","5","6","7","8","9">>

Range(s) == {s[k] : k \in DOMAIN s}

\* str.upper() / re.IGNORECASE folding of one character
ToUpper(c) ==
    IF \E k \in DOMAIN LowerLetters : LowerLetters[k] = c
    THEN UpperLetters[CHOOSE k \in DOMAIN LowerLetters : LowerLetters[k] = c]
    ELSE c

\* str.lower() of one character
ToLower(c) ==
    IF \E k \in DOMAIN UpperLetters : UpperLetters[k] = c
    THEN LowerLetters[CHOOSE k \in DOMAIN UpperLetters : UpperLetters[k] = c]
    ELSE c

Upper(s) == [k \in DOMAIN s |-> ToUpper(s[k])]
Lower(s) == [k \in DOMAIN s |-> ToLower(s[k])]

\* str.capitalize()
Capitalize(s) == [k \in DOMAIN s |-> IF k = 1 THEN ToUpper(s[k]) ELSE ToLower(s[k])]

\* regex \w
IsWordChar(c) ==
    c \in Range(LowerLetters) \cup Range(UpperLetters) \cup Range(Digits) \cup {"_"}
\* regex \s, and the characters str.strip() removes
IsSpaceChar(c) == c \in {" ", "\n", "\t"}
\* regex [\w\(\)]
IsTypeChar(c) == IsWordChar(c) \/ c \in {"(", ")"}

\* the element of a one-element set; {e(x) : x \in {v}} is e with x bound to the
\* value of v, evaluated once
TheOnly(S) == CHOOSE x \in S : TRUE

Min(S) == TheOnly({CHOOSE x \in T : \A y \in T : x <= y : T \in {S}})
Max(S) == TheOnly({CHOOSE x \in T : \A y \in T : x >= y : T \in {S}})

\* the literal lit occurs at position i of text, ignoring case
StartsAt(text, i, lit) ==
    /\ i >= 1
    /\ i + Len(lit) - 1 <= Len(text)
    /\ \A k \in 1..Len(lit) : ToUpper(text[i + k - 1]) = ToUpper(lit[k])

\* str.startswith(lit)
StartsWith(s, lit) == Len(s) >= Len(lit) /\ SubSeq(s, 1, Len(lit)) = lit

\* lit in s
Contains(s, lit) == \E i \in 1..(Len(s) - Len(lit) + 1) : SubSeq(s, i, i + Len(lit) - 1) = lit

\* re.search(lit, text, re.IGNORECASE) for a pattern without metacharacters
Search(lit, text) == \E i \in 1..Len(text) : StartsAt(text, i, lit)

\* re.search(rf'\b{lit}\b', text, re.IGNORECASE) for a lit of word characters
SearchWord(lit, text) ==
    \E i \in 1..Len(text) :
        /\ StartsAt(text, i, lit)
        /\ (i = 1 \/ ~IsWordChar(text[i - 1]))
        /\ (i + Len(lit) > Len(text) \/ ~IsWordChar(text[i + Len(lit)]))

\* first position >= i that holds no word character (Len+1 if none): end of greedy \w*
WordRunEnd(text, i) ==
    TheOnly({IF S = {} THEN Len(text) + 1 ELSE Min(S) :
             S \in {{j \in i..Len(text) : ~IsWordChar(text[j])}}})

\* first position >= i that holds no space character: end of greedy \s*
SpaceRunEnd(text, i) ==
    TheOnly({IF S = {} THEN Len(text) + 1 ELSE Min(S) :
             S \in {{j \in i..Len(text) : ~IsSpaceChar(text[j])}}})

\* end of greedy [\w\(\)]*
TypeRunEnd(text, i) ==
    TheOnly({IF S = {} THEN Len(text) + 1 ELSE Min(S) :
             S \in {{j \in i..Len(text) : ~IsTypeChar(text[j])}}})

\* str.strip()
Strip(s) ==
    TheOnly({TheOnly({IF S = {} THEN <<>> ELSE SubSeq(t, Min(S), Max(S)) :
                      S \in {{j \in 1..Len(t) : ~IsSpaceChar(t[j])}}}) :
             t \in {s}})

RECURSIVE Flatten(_)
Flatten(ss) ==
    TheOnly({IF s = <<>> THEN <<>> ELSE Head(s) \o Flatten(Tail(s)) : s \in {ss}})

\* sep.join(parts)
RECURSIVE Join(_, _)
Join(sep, parts) ==
    TheOnly({IF p = <<>> THEN <<>>
             ELSE IF Len(p) = 1 THEN p[1]
             ELSE p[1] \o sep \o Join(sep, Tail(p)) : p \in {parts}})


-----------------------------------------------------------------------------
(* Class attributes of ABAPAnalyzer: dicts, in insertion order *)

SAP_TABLES ==
    << [key |-> <<"V","B","A","K">>, value |-> <<"Sales Document Header">>],
       [key |-> <<"V","B","A","P">>, value |-> <<"Sales Document Items">>],
       [key |-> <<"K","N","A","1">>, value |-> <<"Customer Master">>],
       [key |-> <<"M","A","R","A">>, value |-> <<"Material Master">>],
       [key |-> <<"B","K","P","F">>, value |-> <<"Accounting Document Header">>],
       [key |-> <<"B","S","E","G">>, value |-> <<"Accounting Document Line Items">>],
       [key |-> <<"L","F","A","1">>, value |-> <<"Vendor Master">>],
       [key |-> <<"E","K","K","O">>, value |-> <<"Purchase Order Header">>] >>

BAPI_PATTERNS ==
    << [key |-> <<"B","A","P","I","_","S","A","L","E","S","O","R","D","E","R">>, value |-> <<"Sales Order Management">>],
       [key |-> <<"B","A","P","I","_","C","U","S","T","O","M","E","R">>, value |-> <<"Customer Master Management">>],
       [key |-> <<"B","A","P","I","_","M","A","T","E","R","I","A","L">>, value |-> <<"Material Master Management">>],
       [key |-> <<"B","A","P","I","_","P","O">>, value |-> <<"Purchase Order Management">>] >>

ClassAttributes == [SAP_TABLES |-> SAP_TABLES, BAPI_PATTERNS |-> BAPI_PATTERNS]

\* items.get(key, default) on a dict kept as a sequence of items
Lookup(items, key, default) ==
    IF \E k \in DOMAIN items : items[k].key = key
    THEN items[CHOOSE k \in DOMAIN items : items[k].key = key].value
    ELSE default

-----------------------------------------------------------------------------
(* Iteration order of a set of strings: fixed by the hash seed of the      *)
(* process, the same for equal sets within one process                     *)

Ascii == Digits \o UpperLetters \o <<"_">> \o LowerLetters
Ord(c) == IF c \in Range(Ascii) THEN CHOOSE k \in DOMAIN Ascii : Ascii[k] = c ELSE 0

RECURSIVE LexLess(_, _)
LexLess(a, b) ==
    IF b = <<>> THEN FALSE
    ELSE IF a = <<>> THEN TRUE
    ELSE IF Ord(Head(a)) # Ord(Head(b)) THEN Ord(Head(a)) < Ord(Head(b))
    ELSE LexLess(Tail(a), Tail(b))

RECURSIVE Sorted(_)
Sorted(S) ==
    TheOnly({IF T = {} THEN <<>>
             ELSE TheOnly({<<least>> \o Sorted(T \ {least}) :
                           least \in {x \in T : \A y \in T \ {x} : LexLess(x, y)}}) :
             T \in {S}})

Reverse(s) == [k \in DOMAIN s |-> s[Len(s) + 1 - k]]
Rotate(s, r) == [k \in DOMAIN s |-> s[((k - 1 + r) % Len(s)) + 1]]

\* list(S) / `for x in S` for a set S of strings
SetOrder(S, seed) ==
    TheOnly({IF asc = <<>> THEN <<>>
             ELSE Rotate(IF (seed \div 3) % 2 = 1 THEN Reverse(asc) ELSE asc,
                         seed % Len(asc)) : asc \in {Sorted(S)}})

-----------------------------------------------------------------------------
(* The regular expressions *)

NoMatch == [ok |-> FALSE]

\* r'IF\s+(?P<condition>[^.]+)\.' at position i: IF, a space character, then
\* the first period of the text after it, with at least one more character
\* in between (\s+ gives characters back to [^.]+ when it has taken them all).
\* g1 is the group up to surrounding space characters, which strip() removes.
MatchIf(text, i) ==
    IF /\ StartsAt(text, i, <<"I","F">>)
       /\ i + 2 <= Len(text)
       /\ IsSpaceChar(text[i + 2])
       /\ \E p \in (i + 4)..Len(text) :
             /\ text[p] = "."
             /\ \A q \in (i + 2)..(p - 1) : text[q] # "."
    THEN TheOnly({[ok |-> TRUE, start |-> i, end |-> p + 1,
                   g1 |-> SubSeq(text, i + 3, p - 1), g2 |-> <<>>] :
                  p \in {Min({q \in (i + 4)..Len(text) : text[q] = "."})}})
    ELSE NoMatch

\* kw\s+(\w+) at position i
MatchKeywordWord(text, i, kw) ==
    IF ~StartsAt(text, i, kw) THEN NoMatch
    ELSE TheOnly({TheOnly({
        IF b > i + Len(kw) /\ e > b
        THEN [ok |-> TRUE, start |-> i, end |-> e,
              g1 |-> SubSeq(text, b, e - 1), g2 |-> <<>>]
        ELSE NoMatch :
        e \in {WordRunEnd(text, b)}}) :
        b \in {SpaceRunEnd(text, i + Len(kw))}})

\* r'LOOP\s+AT\s+(?P<table>\w+)'
MatchLoop(text, i) ==
    IF ~StartsAt(text, i, <<"L","O","O","P">>) THEN NoMatch
    ELSE TheOnly({TheOnly({
        IF b > i + 4 /\ m.ok THEN [m EXCEPT !.start = i] ELSE NoMatch :
        m \in {MatchKeywordWord(text, b, <<"A","T">>)}}) :
        b \in {SpaceRunEnd(text, i + 4)}})

\* \s+FROM\s+(\w+) at position k: the tail of the SELECT pattern
MatchFromTail(text, k) ==
    TheOnly({IF k <= Len(text) /\ c > k THEN MatchKeywordWord(text, c, <<"F","R","O","M">>) ELSE NoMatch :
             c \in {SpaceRunEnd(text, k)}})

\* r'SELECT\s+(?P<fields>.*?)\s+FROM\s+(?P<table>\w+)' with re.DOTALL at i.
\* The greedy \s+ first takes the whole run of space characters up to b; the
\* lazy group then grows from b until the tail matches.  Failing that, \s+
\* gives back its last character and the tail matches there with an empty group.
MatchSelect(text, i) ==
    IF ~StartsAt(text, i, <<"S","E","L","E","C","T">>) THEN NoMatch
    ELSE TheOnly({TheOnly({
        IF b = i + 6 THEN NoMatch
        ELSE IF K # {}
        THEN TheOnly({TheOnly({[ok |-> TRUE, start |-> i, end |-> t.end,
                                g1 |-> SubSeq(text, b, k - 1), g2 |-> t.g1] :
                               t \in {MatchFromTail(text, k)}}) :
                      k \in {Min(K)}})
        ELSE TheOnly({IF b - (i + 6) >= 2 /\ t.ok
                      THEN [ok |-> TRUE, start |-> i, end |-> t.end,
                            g1 |-> <<>>, g2 |-> t.g1]
                      ELSE NoMatch :
                      t \in {MatchFromTail(text, b - 1)}}) :
        K \in {{k \in b..Len(text) : MatchFromTail(text, k).ok}}}) :
        b \in {SpaceRunEnd(text, i + 6)}})

\* r'DATA:\s*(?P<name>\w+)\s+TYPE\s+(?P<type>[\w\(\)]+)'
MatchData(text, i) ==
    IF ~StartsAt(text, i, <<"D","A","T","A",":">>) THEN NoMatch
    ELSE TheOnly({TheOnly({TheOnly({TheOnly({TheOnly({
        IF /\ e > b /\ f > e
           /\ StartsAt(text, f, <<"T","Y","P","E">>)
           /\ g > f + 4 /\ h > g
        THEN [ok |-> TRUE, start |-> i, end |-> h,
              g1 |-> SubSeq(text, b, e - 1), g2 |-> SubSeq(text, g, h - 1)]
        ELSE NoMatch :
        h \in {TypeRunEnd(text, g)}}) :
        g \in {SpaceRunEnd(text, f + 4)}}) :
        f \in {SpaceRunEnd(text, e)}}) :
        e \in {WordRunEnd(text, b)}}) :
        b \in {SpaceRunEnd(text, i + 5)}})

\* r"CALL\s+FUNCTION\s+'(?P<name>[\w_]+)'"
MatchCallFunction(text, i) ==
    IF ~StartsAt(text, i, <<"C","A","L","L">>) THEN NoMatch
    ELSE TheOnly({TheOnly({TheOnly({
       IF /\ b > i + 4
          /\ StartsAt(text, b, <<"F","U","N","C","T","I","O","N">>)
          /\ c > b + 8
          /\ c <= Len(text) /\ text[c] = "'"
          /\ e > c + 1
          /\ e <= Len(text) /\ text[e] = "'"
       THEN [ok |-> TRUE, start |-> i, end |-> e + 1,
             g1 |-> SubSeq(text, c + 1, e - 1), g2 |-> <<>>]
       ELSE NoMatch :
       e \in {WordRunEnd(text, c + 1)}}) :
       c \in {SpaceRunEnd(text, b + 8)}}) :
       b \in {SpaceRunEnd(text, i + 4)}})

MatchAt(rx, text, i) ==
    CASE rx = "if" -> MatchIf(text, i)
      [] rx = "case" -> MatchKeywordWord(text, i, <<"C","A","S","E">>)
      [] rx = "loop" -> MatchLoop(text, i)
      [] rx = "select" -> MatchSelect(text, i)
      [] rx = "INSERT" -> MatchKeywordWord(text, i, <<"I","N","S","E","R","T">>)
      [] rx = "UPDATE" -> MatchKeywordWord(text, i, <<"U","P","D","A","T","E">>)
      [] rx = "MODIFY" -> MatchKeywordWord(text, i, <<"M","O","D","I","F","Y">>)
      [] rx = "data" -> MatchData(text, i)
      [] rx = "call" -> MatchCallFunction(text, i)
      [] rx = "function" -> MatchKeywordWord(text, i, <<"F","U","N","C","T","I","O","N">>)

\* re.finditer: successive non-overlapping matches, scanning left to right:
\* the match at the first position >= i that has one, then the scan goes on
\* where that match ends
RECURSIVE FindIter(_, _, _)
FindIter(rx, text, i) ==
    TheOnly({IF J = {} THEN <<>>
             ELSE TheOnly({TheOnly({<<m>> \o FindIter(rx, text, m.end) :
                                    m \in {MatchAt(rx, text, j)}}) :
                           j \in {Min(J)}}) :
             J \in {{j \in i..Len(text) : MatchAt(rx, text, j).ok}}})

\* match.group(0)
Group0(text, m) == SubSeq(text, m.start, m.end - 1)

-----------------------------------------------------------------------------
(* Helper methods *)

type_map ==
    << [key |-> <<"i">>, value |-> <<"number">>],
       [key |-> <<"s","t","r","i","n","g">>, value |-> <<"string">>],
       [key |-> <<"c","h","a","r">>, value |-> <<"string">>],
       [key |-> <<"p">>, value |-> <<"number">>],
       [key |-> <<"f">>, value |-> <<"number">>],
       [key |-> <<"k","u","n","n","r">>, value |-> <<"string">>],
       [key |-> <<"v","b","e","l","n">>, value |-> <<"string">>] >>

\* first fragment of type_map, in insertion order, contained in the lowered type
convert_abap_type(abap_type) ==
    TheOnly({IF hits = {} THEN <<"any">> ELSE type_map[Min(hits)].value :
             hits \in {{k \in DOMAIN type_map : \E low \in {Lower(abap_type)} :
                                                  Contains(low, type_map[k].key)}}})

describe_function(func_name) ==
    IF StartsWith(func_name, <<"B","A","P","I","_","S","A","L","E","S","O","R","D","E","R">>) THEN <<"Sales Order Management BAPI">>
    ELSE IF StartsWith(func_name, <<"B","A","P","I","_">>) THEN <<"Standard SAP Business API">>
    ELSE <<"Custom Function Module">>

module_map ==
    << [key |-> <<"V","B">>, value |-> <<"S","D">>],
       [key |-> <<"K","N">>, value |-> <<"S","D">>],
       [key |-> <<"M","A">>, value |-> <<"M","M">>],
       [key |-> <<"E","K">>, value |-> <<"M","M">>],
       [key |-> <<"B","K">>, value |-> <<"F","I">>],
       [key |-> <<"B","S">>, value |-> <<"F","I">>],
       [key |-> <<"L","F">>, value |-> <<"M","M">>] >>

get_module_from_table(table) ==
    Lookup(module_map, Upper(SubSeq(table, 1, Min({2, Len(table)}))), <<>>)

-----------------------------------------------------------------------------
(* The extractors *)

SelectRecord(m) ==
    PyDict([type |-> PyLit("SELECT"),
            table |-> PyStr(m.g2),
            sap_table_description |->
                PyStr(Lookup(tables.SAP_TABLES, Upper(m.g2), <<"Unknown">>)),
            fields |-> PyStr(Strip(m.g1))])

WriteRecord(op_type, m) ==
    PyDict([type |-> PyLit(op_type),
            table |-> PyStr(m.g1),
            sap_table_description |->
                PyStr(Lookup(tables.SAP_TABLES, Upper(m.g1), <<"Unknown">>))])

WritesOf(op_type, text) ==
    TheOnly({[k \in DOMAIN ms |-> WriteRecord(op_type, ms[k])] :
             ms \in {FindIter(op_type, text, 1)}})

extract_database_operations(text) ==
    TheOnly({[n \in DOMAIN seq |-> SelectRecord(seq[n])] : seq \in {FindIter("select", text, 1)}})
    \o WritesOf("INSERT", text) \o WritesOf("UPDATE", text) \o WritesOf("MODIFY", text)

VariableRecord(m) ==
    PyDict([name |-> PyStr(m.g1),
            abap_type |-> PyStr(m.g2),
            modern_type |-> PyStr(convert_abap_type(m.g2))])

extract_variables(text) == TheOnly({[n \in DOMAIN seq |-> VariableRecord(seq[n])] :
            seq \in {FindIter("data", text, 1)}})

CallRecord(m) ==
    PyDict([name |-> PyStr(m.g1),
            type |-> PyLit("call"),
            is_bapi |-> PyBool(StartsWith(m.g1, <<"B","A","P","I","_">>)),
            description |-> PyStr(describe_function(m.g1))])

DefinitionRecord(m) == PyDict([name |-> PyStr(m.g1), type |-> PyLit("definition")])

extract_functions(text) ==
    LET defs == FindIter("function", text, 1)
        NotCall(m) == ~StartsWith(Group0(text, m), <<"C","A","L","L">>)
    IN TheOnly({[n \in DOMAIN seq |-> CallRecord(seq[n])] : seq \in {FindIter("call", text, 1)}})
       \o TheOnly({[n \in DOMAIN seq |-> DefinitionRecord(seq[n])] :
                   seq \in {SelectSeq(defs, NotCall)}})

IfRecord(m) ==
    PyDict([type |-> PyLit("validation"), pattern |-> PyLit("IF condition"),
            condition |-> PyStr(Strip(m.g1))])
CaseRecord(m) ==
    PyDict([type |-> PyLit("branching"), pattern |-> PyLit("CASE"),
            variable |-> PyStr(m.g1)])
LoopRecord(m) ==
    PyDict([type |-> PyLit("iteration"), pattern |-> PyLit("LOOP"),
            table |-> PyStr(m.g1)])

\* faulty variant: the LOOP pass runs before the CASE pass
extract_business_logic_LoopFirst(text) ==
    TheOnly({[n \in DOMAIN seq |-> IfRecord(seq[n])] : seq \in {FindIter("if", text, 1)}})
    \o TheOnly({[n \in DOMAIN seq |-> LoopRecord(seq[n])] : seq \in {FindIter("loop", text, 1)}})
    \o TheOnly({[n \in DOMAIN seq |-> CaseRecord(seq[n])] : seq \in {FindIter("case", text, 1)}})

\* the three passes, each appending to the same list
extract_business_logic(text) ==
    TheOnly({[n \in DOMAIN seq |-> IfRecord(seq[n])] : seq \in {FindIter("if", text, 1)}})
    \o TheOnly({[n \in DOMAIN seq |-> CaseRecord(seq[n])] : seq \in {FindIter("case", text, 1)}})
    \o TheOnly({[n \in DOMAIN seq |-> LoopRecord(seq[n])] : seq \in {FindIter("loop", text, 1)}})

-----------------------------------------------------------------------------
(* The public methods of ABAPAnalyzer *)

ExtractionKeys(extraction_type) ==
    {k \in {"database", "variables", "functions", "business_logic"} :
        extraction_type \in {PyLit("all"), PyLit(k)}}

parse_abap(text, extraction_type) ==
    PyDict([status |-> PyLit("success"),
            patterns |-> PyDict([k \in ExtractionKeys(extraction_type) |->
                CASE k = "database" -> PyList(extract_database_operations(text))
                  [] k = "variables" -> PyList(extract_variables(text))
                  [] k = "functions" -> PyList(extract_functions(text))
                  [] k = "business_logic" -> PyList(extract_business_logic(text))])])

BapiRecord(item) == PyDict([pattern |-> PyStr(item.key), description |-> PyStr(item.value)])
TableRecord(item) == PyDict([table |-> PyStr(item.key), description |-> PyStr(item.value)])

PricingWords == {<<"c","o","n","d","i","t","i","o","n">>, <<"p","r","i","c","i","n","g">>, <<"d","i","s","c","o","u","n","t">>, <<"k","b","e","t","r">>}

\* patterns['modules']: the set the table loop fills
ModulesOf(found) ==
    {get_module_from_table(found[k].key) : k \in DOMAIN found} \ {<<>>}

detect_sap_patterns(text) ==
    LET BapiHit(item) == Search(item.key, text)
        TableHit(item) == SearchWord(item.key, text)
    IN TheOnly({
        PyDict([bapis |-> PyList(TheOnly({[n \in DOMAIN seq |-> BapiRecord(seq[n])] :
                    seq \in {SelectSeq(tables.BAPI_PATTERNS, BapiHit)}})),
                tables |-> PyList(TheOnly({[n \in DOMAIN seq |-> TableRecord(seq[n])] :
                            seq \in {found}})),
                modules |-> PyList(TheOnly({[n \in DOMAIN seq |-> PyStr(seq[n])] :
                            seq \in {SetOrder(ModulesOf(found), hashSeed)}})),
                pricing_logic |-> PyBool(\E w \in PricingWords : Search(w, text)),
                authorization_checks |-> PyBool(Search(<<"A","U","T","H","O","R","I","T","Y","-","C","H","E","C","K">>, text))]) :
        found \in {SelectSeq(tables.SAP_TABLES, TableHit)}})

DictOf(v) == v.dict

DeclarationLine(var) ==
    <<"let ">> \o var.name.str \o <<": ">> \o var.modern_type.str \o <<";">>

OperationLine(op) ==
    IF op.type = PyLit("SELECT")
    THEN << <<"const data = await db.">> \o Lower(op.table.str) \o <<".findMany();">> >>
    ELSE IF op.type = PyLit("INSERT")
    THEN << <<"await db.">> \o Lower(op.table.str) \o <<".create({ data: {} });">> >>
    ELSE <<>>

TypescriptLines(variables, db_ops, preserve_comments) ==
            (IF Truthy(preserve_comments)
             THEN << <<"// Transformed from ABAP by Kiro">>, <<>> >> ELSE <<>>)
            \o (IF variables # <<>>
                THEN << <<"// Variable declarations">> >>
                     \o TheOnly({[n \in DOMAIN seq |-> DeclarationLine(seq[n])] :
                                 seq \in {variables}}) \o << <<>> >>
                ELSE <<>>)
            \o (IF db_ops # <<>>
                THEN << <<"// Database operations">> >>
                     \o Flatten(TheOnly({[n \in DOMAIN seq |-> OperationLine(seq[n])] :
                                 seq \in {db_ops}})) \o << <<>> >>
                ELSE <<>>)

generate_typescript(abap_code, preserve_comments) ==
    TheOnly({Join(<<"\n">>, TypescriptLines(variables, db_ops, preserve_comments)) :
             variables \in {TheOnly({[n \in DOMAIN seq |-> DictOf(seq[n])] :
                         seq \in {extract_variables(abap_code)}})},
             db_ops \in {TheOnly({[n \in DOMAIN seq |-> DictOf(seq[n])] :
                         seq \in {extract_database_operations(abap_code)}})}})

generate_python(abap_code, preserve_comments) ==
    LET output ==
            (IF Truthy(preserve_comments)
             THEN << <<"# Transformed from ABAP by Kiro">>, <<>> >> ELSE <<>>)
            \o << <<"# Python transformation coming soon">> >>
    IN Join(<<"\n">>, output)

\* abap_code is only scanned on the typescript path
generate_modern_equivalent(abap_code, target_language, preserve_comments) ==
    IF target_language = PyLit("typescript")
    THEN PyStr(generate_typescript(abap_code, preserve_comments))
    ELSE IF target_language = PyLit("python")
    THEN PyStr(generate_python(abap_code, preserve_comments))
    ELSE PyLit("// Unsupported target language")

\* len(re.findall(r'\bif\b', text, re.IGNORECASE))
CountIfTokens(text) ==
    Cardinality({i \in 1..Len(text) :
        /\ StartsAt(text, i, <<"i","f">>)
        /\ (i = 1 \/ ~IsWordChar(text[i - 1]))
        /\ (i + 2 > Len(text) \/ ~IsWordChar(text[i + 2]))})

IsValidation(l) == l.dict.type = PyLit("validation")

\* faulty variant: strict comparison of the two counts
ValidationReport_Strict(abap_logic, abap_ifs, modern_ifs) ==
    PyDict([status |-> PyLit("validated"),
            checks |-> PyList(<<PyDict([
                type |-> PyLit("validations"),
                abap_count |-> PyInt(abap_ifs),
                modern_count |-> PyInt(modern_ifs),
                status |-> IF modern_ifs > abap_ifs THEN PyLit("ok") ELSE PyLit("warning")])>>),
            warnings |-> PyList(IF modern_ifs <= abap_ifs
                THEN <<PyLit("Some ABAP validations may not be preserved")>>
                ELSE <<>>),
            preserved_logic_count |-> PyInt(Len(abap_logic))])

\* the validation dict, its one check and the warning
ValidationReport(abap_logic, abap_ifs, modern_ifs) ==
    PyDict([status |-> PyLit("validated"),
            checks |-> PyList(<<PyDict([
                type |-> PyLit("validations"),
                abap_count |-> PyInt(abap_ifs),
                modern_count |-> PyInt(modern_ifs),
                status |-> IF modern_ifs >= abap_ifs THEN PyLit("ok") ELSE PyLit("warning")])>>),
            warnings |-> PyList(IF modern_ifs < abap_ifs
                THEN <<PyLit("Some ABAP validations may not be preserved")>>
                ELSE <<>>),
            preserved_logic_count |-> PyInt(Len(abap_logic))])

validate_business_logic(original_abap, modern_code) ==
    TheOnly({ValidationReport(abap_logic, Len(SelectSeq(abap_logic, IsValidation)), modern_ifs) :
             abap_logic \in {extract_business_logic(original_abap)},
             modern_ifs \in {CountIfTokens(modern_code)}})

InterfaceLines(table) ==
    << <<"interface ">> \o Capitalize(table) \o <<" {">>,
       <<"  // TODO: Define fields from ">>
           \o Lookup(tables.SAP_TABLES, Upper(table), <<"SAP table">>),
       <<"}\n">> >>

\* set(op['table'] for op in db_ops)
TableNames(db_ops) == {db_ops[k].dict.table.str : k \in DOMAIN db_ops}

extract_data_model(text, output_format) ==
    TheOnly({IF output_format = PyLit("typescript")
             THEN PyStr(Join(<<"\n">>,
                      << <<"// Data Models\n">> >>
                      \o Flatten(TheOnly({[n \in DOMAIN seq |-> InterfaceLines(seq[n])] :
                                  seq \in {SetOrder(TableNames(db_ops), hashSeed)}}))))
             ELSE PyLit("// Unsupported format") :
             db_ops \in {extract_database_operations(text)}})

-----------------------------------------------------------------------------
(* Input texts: concatenations of a few chunks *)

TextsOver(chunks, n) ==
    {Flatten(s) : s \in UNION {[1..k -> chunks] : k \in 0..n}}

MaxLogicChunks == 4
LogicChunks ==
    { <<"I","F"," ","v">>, <<".">>, <<"C","A","S","E"," ","v">>, <<"L","O","O","P"," ","A","T"," ","t">>, <<" ">>, <<"w">> }
LogicTexts == TextsOver(LogicChunks, MaxLogicChunks)

MaxValidateChunks == 3
OriginalChunks == { <<"I","F"," ","v",".">>, <<"E","N","D">>, <<" ">> }
ModernChunks == { <<"i","f">>, <<"I","F">>, <<"(">>, <<"x">> }
OriginalTexts == TextsOver(OriginalChunks, MaxValidateChunks)
ModernTexts == TextsOver(ModernChunks, MaxValidateChunks)

MaxDetectChunks == 3
DetectChunks == { <<"V","B","A","K">>, <<"e","k","k","o">>, <<"B","K","P","F">>, <<" ">>, <<"x">> }
DetectTexts == TextsOver(DetectChunks, MaxDetectChunks)

MaxParseChunks == 3
ParseChunks == { <<"I","F"," ","v",".","\n">>, <<"*"," ","c","\n">>, <<"\n">>, <<"S","E","L","E","C","T"," ","f"," ","F","R","O","M"," ","V","B","A","K","\n">> }
ParseTexts == TextsOver(ParseChunks, MaxParseChunks)

ExtractionTypes ==
    {PyLit("all"), PyLit("database"), PyLit("variables"), PyLit("functions"),
     PyLit("business_logic"), PyLit("other")}

\* seeds that between them give every order of a set of up to three strings
AllSeeds == 0..5

-----------------------------------------------------------------------------
(* Direct calls of one analyzer method: the arguments are drawn in the     *)
(* initial state, the call stores what the method returns.                 *)

LoopIdle ==
    /\ stdin = <<>> /\ consumed = <<>> /\ stdout = <<>>
    /\ line = Unbound /\ request = Unbound /\ response = Unbound
    /\ exc = Unbound

CallUnchanged ==
    UNCHANGED <<stdin, consumed, stdout, line, request, response, exc,
                tables, hashSeed, code, modern, arg>>

InitLogic ==
    /\ LoopIdle
    /\ tables = ClassAttributes /\ hashSeed = 0
    /\ pc = "call" /\ result = Unbound
    /\ code \in LogicTexts /\ modern = <<>> /\ arg = Unbound

CallExtractLogic ==
    /\ pc = "call"
    /\ result' = extract_business_logic(code)
    /\ pc' = "return"
    /\ CallUnchanged

SpecLogic == InitLogic /\ [][CallExtractLogic]_vars

InitValidate ==
    /\ LoopIdle
    /\ tables = ClassAttributes /\ hashSeed = 0
    /\ pc = "call" /\ result = Unbound
    /\ code \in OriginalTexts /\ modern \in ModernTexts /\ arg = Unbound

CallValidate ==
    /\ pc = "call"
    /\ result' = validate_business_logic(code, modern)
    /\ pc' = "return"
    /\ CallUnchanged

SpecValidate == InitValidate /\ [][CallValidate]_vars

InitDetect ==
    /\ LoopIdle
    /\ tables = ClassAttributes /\ hashSeed \in AllSeeds
    /\ pc = "call" /\ result = Unbound
    /\ code \in DetectTexts /\ modern = <<>> /\ arg = Unbound

CallDetect ==
    /\ pc = "call"
    /\ result' = detect_sap_patterns(code)
    /\ pc' = "return"
    /\ CallUnchanged

SpecDetect == InitDetect /\ [][CallDetect]_vars

InitParse ==
    /\ LoopIdle
    /\ tables = ClassAttributes /\ hashSeed = 0
    /\ pc = "call" /\ result = Unbound
    /\ code \in ParseTexts /\ modern = <<>> /\ arg \in ExtractionTypes

CallParse ==
    /\ pc = "call"
    /\ result' = parse_abap(code, arg)
    /\ pc' = "return"
    /\ CallUnchanged

SpecParse == InitParse /\ [][CallParse]_vars

-----------------------------------------------------------------------------
(* handle_mcp_request *)

\* how a call ends
Return(v) == [return |-> v]
Raise(msg) == [raise |-> msg]
Raised(o) == DOMAIN o = {"raise"}

\* str(e) of the AttributeError of v.get on a v that is no dict
NoGet(v) == <<"'", TypeName(v), "' object has no attribute 'get'">>
\* str(e) of the TypeError re raises when asked to scan a value that is no str
NotText == <<"expected string or bytes-like object">>

EmptyDict == PyDict(<<>>)

SupportedTools ==
    {PyLit("parse_abap"), PyLit("detect_sap_patterns"),
     PyLit("generate_modern_equivalent"), PyLit("validate_business_logic"),
     PyLit("extract_data_model")}

\* the if/elif chain inside the try; params.get raises when params is no dict,
\* the analyzer raises when it scans an argument that is no str
CallTool(tool_name, params) ==
    IF ~IsDict(params) THEN Raise(NoGet(params))
    ELSE CASE tool_name = PyLit("parse_abap") ->
              LET c == Get(params, "code", PyStr(<<>>))
                  et == Get(params, "extractionType", PyLit("all"))
              IN IF ~IsStr(c) /\ ExtractionKeys(et) # {} THEN Raise(NotText)
                 ELSE Return(parse_abap(IF IsStr(c) THEN c.str ELSE <<>>, et))
           [] tool_name = PyLit("detect_sap_patterns") ->
              LET c == Get(params, "code", PyStr(<<>>))
              IN IF ~IsStr(c) THEN Raise(NotText) ELSE Return(detect_sap_patterns(c.str))
           [] tool_name = PyLit("generate_modern_equivalent") ->
              LET c == Get(params, "abapCode", PyStr(<<>>))
                  lang == Get(params, "targetLanguage", PyLit("typescript"))
                  keep == Get(params, "preserveComments", PyBool(TRUE))
              IN IF ~IsStr(c) /\ lang = PyLit("typescript") THEN Raise(NotText)
                 ELSE Return(generate_modern_equivalent(
                                 IF IsStr(c) THEN c.str ELSE <<>>, lang, keep))
           [] tool_name = PyLit("validate_business_logic") ->
              LET o == Get(params, "originalAbap", PyStr(<<>>))
                  m == Get(params, "modernCode", PyStr(<<>>))
              IN IF ~IsStr(o) \/ ~IsStr(m) THEN Raise(NotText)
                 ELSE Return(validate_business_logic(o.str, m.str))
           [] tool_name = PyLit("extract_data_model") ->
              LET c == Get(params, "code", PyStr(<<>>))
                  fmt == Get(params, "outputFormat", PyLit("typescript"))
              IN IF ~IsStr(c) THEN Raise(NotText)
                 ELSE Return(extract_data_model(c.str, fmt))

\* request.get on a request that is no dict raises before the try is entered
handle_mcp_request(req) ==
    IF ~IsDict(req) THEN Raise(NoGet(req))
    ELSE LET tool_name == Get(req, "method", PyNone)
             params == Get(req, "params", EmptyDict)
         IN IF tool_name \notin SupportedTools
            THEN Return(PyDict([error |-> PyStr(<<"Unknown tool: ">> \o Format(tool_name))]))
            ELSE TheOnly({IF Raised(o) THEN Return(PyDict([error |-> PyStr(o.raise)]))
                          ELSE Return(PyDict([result |-> o.return])) :
                          o \in {CallTool(tool_name, params)}})

-----------------------------------------------------------------------------
(* Lines and json *)

EmptyLine == [empty |-> TRUE]
GarbageLine == [garbage |-> TRUE]
JsonLine(v) == [json |-> v]

IsEmptyLine(l) == DOMAIN l = {"empty"}

\* json.loads: the decoded value, or JSONDecodeError
json_loads(l) ==
    IF DOMAIN l = {"json"} THEN Return(l.json)
    ELSE Raise(<<"Expecting value: line 1 column 1 (char 0)">>)

\* json.dumps of a value built from dicts, lists, strs, ints, bools and None
json_dumps(v) == JsonLine(v)

-----------------------------------------------------------------------------
(* The request lines the input stream is drawn from *)

SampleAbap == <<"S","E","L","E","C","T"," ","a"," ","F","R","O","M"," ","V","B","A","K","."," ","I","F"," ","v","."," ","L","O","O","P"," ","A","T"," ","e","k","k","o",".">>
SampleTypes == <<"D","A","T","A",":"," ","n"," ","T","Y","P","E"," ","i","."," ","I","N","S","E","R","T"," ","b","k","p","f",".">>
SampleModern == <<"i","f"," ","(","v",")"," ","{","}">>

Lines ==
    { EmptyLine,
      GarbageLine,
      JsonLine(PyList(<<>>)),
      JsonLine(PyDict(<<>>)),
      JsonLine(PyDict([jsonrpc |-> PyLit("2.0"), id |-> PyInt(1),
                       method |-> PyLit("analyzeCode"),
                       params |-> PyDict([code |-> PyStr(SampleAbap)])])),
      JsonLine(PyDict([id |-> PyInt(2), method |-> PyLit("parse_abap"),
                       params |-> PyDict([code |-> PyStr(SampleAbap)])])),
      JsonLine(PyDict([method |-> PyLit("parse_abap"), params |-> PyNone])),
      JsonLine(PyDict([method |-> PyLit("detect_sap_patterns"),
                       params |-> PyDict([code |-> PyStr(SampleAbap)])])),
      JsonLine(PyDict([id |-> PyInt(4), method |-> PyLit("detect_sap_patterns"),
                       params |-> PyDict([code |-> PyInt(5)])])),
      JsonLine(PyDict([method |-> PyLit("generate_modern_equivalent"),
                       params |-> PyDict([abapCode |-> PyStr(SampleTypes)])])),
      JsonLine(PyDict([id |-> PyInt(3), method |-> PyLit("validate_business_logic"),
                       params |-> PyDict([originalAbap |-> PyStr(SampleAbap),
                                          modernCode |-> PyStr(SampleModern)])])),
      JsonLine(PyDict([method |-> PyLit("extract_data_model"),
                       params |-> PyDict([code |-> PyStr(SampleAbap \o SampleTypes)])])) }

MaxLines == 2

Streams == UNION {[1..n -> Lines] : n \in 0..MaxLines}

HashSeeds == {0, 4}

-----------------------------------------------------------------------------
(* The stdio loop of __main__ *)

Init ==
    /\ stdin \in Streams
    /\ consumed = <<>> /\ stdout = <<>>
    /\ pc = "input"
    /\ line = Unbound /\ request = Unbound /\ response = Unbound /\ exc = Unbound
    /\ tables = ClassAttributes
    /\ hashSeed \in HashSeeds
    /\ code = <<>> /\ modern = <<>> /\ arg = Unbound /\ result = Unbound

Fixed == UNCHANGED <<tables, hashSeed, code, modern, arg, result>>

\* line = input()
Input ==
    /\ pc = "input" /\ stdin # <<>>
    /\ line' = Head(stdin)
    /\ stdin' = Tail(stdin)
    /\ consumed' = Append(consumed, Head(stdin))
    /\ pc' = "check"
    /\ UNCHANGED <<stdout, request, response, exc>> /\ Fixed

\* input() raises EOFError; except EOFError: break
Eof ==
    /\ pc = "input" /\ stdin = <<>>
    /\ pc' = "done"
    /\ UNCHANGED <<stdin, consumed, stdout, line, request, response, exc>> /\ Fixed

\* if not line: break
Break ==
    /\ pc = "check" /\ IsEmptyLine(line)
    /\ pc' = "done"
    /\ UNCHANGED <<stdin, consumed, stdout, line, request, response, exc>> /\ Fixed

\* faulty variant: a line that does not decode ends the loop
Loads_Terminates ==
    /\ pc = "check" /\ ~IsEmptyLine(line)
    /\ \E o \in {json_loads(line)} :
          IF Raised(o)
          THEN exc' = o /\ pc' = "done" /\ UNCHANGED request
          ELSE request' = o.return /\ pc' = "handle" /\ UNCHANGED exc
    /\ UNCHANGED <<stdin, consumed, stdout, line, response>> /\ Fixed

\* request = json.loads(line)
Loads ==
    /\ pc = "check" /\ ~IsEmptyLine(line)
    /\ \E o \in {json_loads(line)} :
          IF Raised(o)
          THEN exc' = o /\ pc' = "except" /\ UNCHANGED request
          ELSE request' = o.return /\ pc' = "handle" /\ UNCHANGED exc
    /\ UNCHANGED <<stdin, consumed, stdout, line, response>> /\ Fixed

\* response = handle_mcp_request(request)
Handle ==
    /\ pc = "handle"
    /\ \E o \in {handle_mcp_request(request)} :
          IF Raised(o)
          THEN exc' = o /\ pc' = "except" /\ UNCHANGED response
          ELSE response' = o.return /\ pc' = "print" /\ UNCHANGED exc
    /\ UNCHANGED <<stdin, consumed, stdout, line, request>> /\ Fixed

\* faulty variant: the exception handler writes nothing
Except_Silent ==
    /\ pc = "except"
    /\ pc' = "input"
    /\ UNCHANGED <<stdin, consumed, stdout, line, request, response, exc>> /\ Fixed

\* faulty variant: the exception handler writes the error and leaves the loop
Except_Terminates ==
    /\ pc = "except"
    /\ stdout' = Append(stdout, json_dumps(PyDict([error |-> PyStr(exc.raise)])))
    /\ pc' = "done"
    /\ UNCHANGED <<stdin, consumed, line, request, response, exc>> /\ Fixed

\* faulty variant: the exception handler prints whatever `response` holds
Except_StaleResponse ==
    /\ pc = "except"
    /\ stdout' = Append(stdout, json_dumps(response))
    /\ pc' = "input"
    /\ UNCHANGED <<stdin, consumed, line, request, response, exc>> /\ Fixed

\* print(json.dumps(response)); sys.stdout.flush()
WriteResponse ==
    /\ pc = "print"
    /\ stdout' = Append(stdout, json_dumps(response))
    /\ pc' = "input"
    /\ UNCHANGED <<stdin, consumed, line, request, response, exc>> /\ Fixed

\* except Exception as e: print(json.dumps({'error': str(e)})); flush
Except ==
    /\ pc = "except"
    /\ stdout' = Append(stdout, json_dumps(PyDict([error |-> PyStr(exc.raise)])))
    /\ pc' = "input"
    /\ UNCHANGED <<stdin, consumed, line, request, response, exc>> /\ Fixed

Next == Input \/ Eof \/ Break \/ Loads \/ Handle \/ WriteResponse \/ Except

Spec == Init /\ [][Next]_vars

\* the process is always scheduled: a step that can be taken is taken
FairSpec == Spec /\ WF_vars(Next)

-----------------------------------------------------------------------------
(* Properties of the request loop *)

\* the whole input stream: the lines read so far and the lines still unread
Supplied == consumed \o stdin

NonEmptyCount(ls) == Cardinality({i \in DOMAIN ls : ~IsEmptyLine(ls[i])})

\* a line that decodes to a request object
Decodable(l) == DOMAIN l = {"json"} /\ IsDict(l.json)

IsErrorLine(l) == DOMAIN l = {"json"} /\ IsDict(l.json) /\ DOMAIN l.json.dict = {"error"}
IsResultLine(l) == DOMAIN l = {"json"} /\ IsDict(l.json) /\ DOMAIN l.json.dict = {"result"}

ErrorLine(msg) == json_dumps(PyDict([error |-> PyStr(msg)]))

\* what a non-empty line is answered with, computed from the line alone
AnswerOf(l) ==
    TheOnly({IF Raised(v) THEN ErrorLine(v.raise)
             ELSE TheOnly({IF Raised(o) THEN ErrorLine(o.raise) ELSE json_dumps(o.return) :
                           o \in {handle_mcp_request(v.return)}}) :
             v \in {json_loads(l)}})

\* C1 as stated: once the loop has ended, there are as many response lines as
\* request lines were supplied.
C1_OneResponsePerSuppliedLine ==
    pc = "done" => Len(stdout) = NonEmptyCount(Supplied)

\* C1 as amended: between two requests and once the loop has ended, there are
\* exactly as many response lines as non-empty lines were read; the lines that
\* follow an empty line are never read.
C1_OneResponsePerLineRead ==
    pc \in {"input", "done"} => Len(stdout) = NonEmptyCount(consumed)

\* C1 witness: the loop has answered a request and was then ended by an empty line
C1_Witness ==
    /\ pc = "done"
    /\ Len(consumed) = 2 /\ IsEmptyLine(consumed[2])
    /\ Len(stdout) = 1

\* the error response for line i, and the answer to a request line that follows it
AnsweredAndLoopGoesOn(i) ==
    /\ i <= Len(stdout)
    /\ IsErrorLine(stdout[i])
    /\ (i < Len(Supplied) /\ Decodable(Supplied[i + 1])) =>
           /\ i + 1 <= Len(stdout)
           /\ stdout[i + 1] = AnswerOf(Supplied[i + 1])

\* C2 as stated: every line that does not decode to a request object gets one
\* error response, and a request line right after it is answered as on its own.
C2_UndecodableLineAnswered ==
    pc = "done" =>
        \A i \in DOMAIN Supplied : ~Decodable(Supplied[i]) => AnsweredAndLoopGoesOn(i)

\* C2 as amended: every non-empty line read that does not decode to a request
\* object gets one error response, and a request line right after it is
\* answered as on its own.
C2_NonEmptyUndecodableLineAnswered ==
    pc = "done" =>
        \A i \in DOMAIN consumed :
            (~IsEmptyLine(consumed[i]) /\ ~Decodable(consumed[i])) => AnsweredAndLoopGoesOn(i)

\* C2 witness: a line that does not decode was followed by a request that got
\* its result
C2_Witness ==
    /\ pc = "done"
    /\ Len(stdout) = 2
    /\ ~Decodable(consumed[1]) /\ Decodable(consumed[2])
    /\ IsErrorLine(stdout[1]) /\ IsResultLine(stdout[2])

\* C3: a request whose method is not a supported tool is answered with an
\* error, never a result, whose message holds the method name and which carries
\* an integer error code.
C3_UnknownMethodErrorCode ==
    (/\ pc = "print"
     /\ IsDict(request)
     /\ Get(request, "method", PyNone) \notin SupportedTools) =>
        /\ "error" \in DOMAIN response.dict
        /\ "result" \notin DOMAIN response.dict
        /\ IsDict(response.dict.error)
        /\ {"code", "message"} \subseteq DOMAIN response.dict.error.dict
        /\ DOMAIN response.dict.error.dict.code = {"int"}
        /\ Contains(response.dict.error.dict.message.str,
                    Format(Get(request, "method", PyNone)))

\* the id of the request a line holds, None when it holds none
RequestId(l) ==
    IF Decodable(l) /\ "id" \in DOMAIN l.json.dict THEN l.json.dict.id ELSE PyNone

\* C4: every response carries, as its id, the id of the request it answers,
\* and None when that request has no id.
C4_IdEchoed ==
    \A i \in DOMAIN stdout :
        /\ "id" \in DOMAIN stdout[i].json.dict
        /\ stdout[i].json.dict.id = RequestId(consumed[i])

\* C5 as stated (its safety part): the loop has ended only with the input
\* stream exhausted.
C5_EndsOnlyAtEndOfInput ==
    pc = "done" => stdin = <<>>

\* the loop has ended on an empty line, or else with nothing left to read and
\* every line read answered
EndedAtEmptyLineOrEndOfInput ==
    \/ consumed # <<>> /\ IsEmptyLine(consumed[Len(consumed)])
    \/ stdin = <<>> /\ Len(stdout) = Len(consumed)

\* C5 as amended: the loop ends only on an empty line or at the end of the
\* input, never because a request failed, and on a finite input it ends.
C5_EndsAtEmptyLineOrEndOfInput ==
    /\ [](pc = "done" => EndedAtEmptyLineOrEndOfInput)
    /\ <>(pc = "done")

\* C5 witness: the loop ran to the end of the input past a request that failed
C5_Witness ==
    /\ pc = "done"
    /\ stdin = <<>>
    /\ Len(stdout) = 2 /\ IsErrorLine(stdout[1])
    /\ ~IsEmptyLine(consumed[2])

\* C6: the class tables are never modified, each response is what its own line
\* alone is answered with, and equal lines get equal responses.
C6_NoInterference ==
    /\ tables = ClassAttributes
    /\ (pc = "input" /\ stdout # <<>>) =>
           stdout[Len(stdout)] = AnswerOf(consumed[Len(stdout)])
    /\ \A i, j \in DOMAIN stdout : consumed[i] = consumed[j] => stdout[i] = stdout[j]

\* C6 witness: a request got its result right after a request that failed
C6_Witness ==
    /\ pc = "done"
    /\ Len(stdout) = 2
    /\ Decodable(consumed[1]) /\ IsErrorLine(stdout[1])
    /\ Decodable(consumed[2]) /\ IsResultLine(stdout[2])

-----------------------------------------------------------------------------
(* Properties of the analyzer methods *)

\* start positions of the occurrences re.finditer reports for rx
StartsOf(rx, text) == {m.start : m \in Range(FindIter(rx, text, 1))}

\* the business rule record of the statement that starts at position i
RecordAt(text, i, ifs, cases, loops) ==
    IF i \in ifs THEN <<IfRecord(MatchIf(text, i))>>
    ELSE IF i \in cases THEN <<CaseRecord(MatchAt("case", text, i))>>
    ELSE IF i \in loops THEN <<LoopRecord(MatchLoop(text, i))>>
    ELSE <<>>

\* the business rule records of a text, one per occurrence, listed by the
\* position in the text at which the occurrence starts
RecordsInOrder(text) ==
    TheOnly({Flatten([i \in 1..Len(text) |-> RecordAt(text, i, ifs, cases, loops)]) :
             ifs \in {StartsOf("if", text)},
             cases \in {StartsOf("case", text)},
             loops \in {StartsOf("loop", text)}})

IsBranching(l) == l.dict.type = PyLit("branching")
IsIteration(l) == l.dict.type = PyLit("iteration")

Advisory == PyLit("Some ABAP validations may not be preserved")

\* C7: validate_business_logic reports "ok" exactly when the candidate's count
\* of if-tokens is at least the count of validation records of the original,
\* and "warning" otherwise; the advisory is the one warning in the "warning"
\* case and there are no warnings in the "ok" case.
C7_StatusByCount ==
    pc = "return" =>
        \E c \in {result.dict.checks.list[1].dict} :
            /\ Len(result.dict.checks.list) = 1
            /\ c.status \in {PyLit("ok"), PyLit("warning")}
            /\ (c.status = PyLit("ok")) <=>
                   (CountIfTokens(modern) >= Cardinality(StartsOf("if", code)))
            /\ c.status = PyLit("warning") => result.dict.warnings = PyList(<<Advisory>>)
            /\ c.status = PyLit("ok") => result.dict.warnings = PyList(<<>>)

\* C7 witness: a candidate with an if-token, but fewer than the original has
\* validations, was judged "warning"
C7_Witness ==
    /\ pc = "return"
    /\ result.dict.checks.list[1].dict.status = PyLit("warning")
    /\ result.dict.checks.list[1].dict.modern_count.int >= 1

SalesTables == {<<"V","B","A","K">>, <<"V","B","A","P">>}
PurchaseTables == {<<"E","K","K","O">>}
AccountingTables == {<<"B","K","P","F">>, <<"B","S","E","G">>}

Detected(names, text) == \E t \in names : SearchWord(t, text)

\* the one module tag the precedence sales, purchasing, accounting, default gives
ModuleTag(text) ==
    IF Detected(SalesTables, text) THEN <<"S","D">>
    ELSE IF Detected(PurchaseTables, text) THEN <<"M","M">>
    ELSE IF Detected(AccountingTables, text) THEN <<"F","I">>
    ELSE <<"CUSTOM">>

\* C8: the classification of a text is the single tag of highest precedence
\* among the modules of its tables, and "CUSTOM" when it names none.
C8_SingleModuleTag ==
    pc = "return" => result.dict.modules = PyList(<<PyStr(ModuleTag(code))>>)

\* positions at which a line of the text starts
LineStarts(text) ==
    {s \in 1..Len(text) : s = 1 \/ text[s - 1] = "\n"}

\* the line that starts at s, without its newline
LineAt(text, s) ==
    SubSeq(text, s, Min({j \in s..Len(text) : text[j] = "\n"} \cup {Len(text) + 1}) - 1)

\* non-blank lines whose first non-space character is not the comment sigil
CodeLineCount(text) ==
    Cardinality({s \in LineStarts(text) :
        \E l \in {Strip(LineAt(text, s))} : l # <<>> /\ Head(l) # "*"})

\* lines // 20, clamped to [1, 10]
Complexity(text) ==
    \* the quotient, raised to 1 and lowered to 10
    Max({1, Min({10, CodeLineCount(text) \div 20})})

\* C9: the analysis result carries the complexity score of the text: its count
\* of code lines divided by 20, clamped to [1, 10].
C9_ComplexityScore ==
    pc = "return" =>
        /\ "complexity" \in DOMAIN result.dict
        /\ result.dict.complexity = PyInt(Complexity(code))

\* C10 as stated: the records are listed in the order in which their
\* statements appear in the text, one per occurrence.
C10_OrderOfAppearance ==
    pc = "return" => result = RecordsInOrder(code)

\* C10 as amended: one record per occurrence, grouped by kind (validations,
\* then branchings, then iterations), each group in order of appearance.
C10_GroupedByKind ==
    pc = "return" =>
        \E inOrder \in {RecordsInOrder(code)} :
            result = SelectSeq(inOrder, IsValidation)
                     \o SelectSeq(inOrder, IsBranching)
                     \o SelectSeq(inOrder, IsIteration)

\* C10 witness: a text with a LOOP AT ahead of an IF has been extracted, and the
\* validation record is listed first
C10_Witness ==
    /\ pc = "return"
    /\ Len(result) = 2
    /\ IsValidation(result[1]) /\ IsIteration(result[2])
    /\ RecordsInOrder(code) = <<result[2], result[1]>>
=============================================================================
